---- MODULE Spec2Model ----
(***************************************************************************)
(* Model of the therapist dashboard: the spreadsheet-to-MySQL sync of      *)
(* db_build.py, the field coercions of pull_build.py it uses, and the page *)
(* cycle and store queries of app.py.                                      *)
(*                                                                         *)
(* Text is a sequence of one-character strings, so that stripping,         *)
(* parsing and formatting are computed and not assumed.  Python's None     *)
(* (and a NaN cell, and SQL NULL, which the connector maps to None) is the *)
(* one-element sequence None, which is no text.  An INTEGER column holds   *)
(* <<n>> or, for NULL, <<>>.                                               *)
(***************************************************************************)
EXTENDS Integers, Sequences, FiniteSets, TLC

\* ------------------------------------------------------------------ text

None == <<"None">>

EmptyStr == <<>>

Whitespace == {" ", "\t", "\n"}

DigitChars == <<"0", "1", "2", "3", "4", "5", "6", "7", "8", "9">>

IsDigit(c) == \E i \in 1..10 : DigitChars[i] = c

DigitVal(c) == (CHOOSE i \in 1..10 : DigitChars[i] = c) - 1

\* pd.notna: false for None and NaN, true for every other cell value,
\* the empty string included.
NotNa(value) == value # None

RECURSIVE LStrip(_)
LStrip(s) ==
    IF s # <<>> /\ Head(s) \in Whitespace THEN LStrip(Tail(s)) ELSE s

RECURSIVE RStrip(_)
RStrip(s) ==
    IF s # <<>> /\ s[Len(s)] \in Whitespace
    THEN RStrip(SubSeq(s, 1, Len(s) - 1))
    ELSE s

\* str.strip()
Strip(s) == RStrip(LStrip(s))

\* str(value): a cell is held as its text; str(None) is "None".
Str(value) == IF value = None THEN <<"N", "o", "n", "e">> ELSE value

\* row.get(key, default): the cell, or the default where the column is
\* missing.  A cell that is present but NaN stays NaN.
RowGet(row, key, default) ==
    IF key \in DOMAIN row THEN row[key] ELSE default

\* ------------------------------------------------------------ coercions

safe_str(value) == IF NotNa(value) THEN Strip(Str(value)) ELSE EmptyStr

RECURSIVE AllDigits(_)
AllDigits(s) == s = <<>> \/ (IsDigit(Head(s)) /\ AllDigits(Tail(s)))

RECURSIVE DigitsToNat(_)
DigitsToNat(s) ==
    IF s = <<>> THEN 0
    ELSE 10 * DigitsToNat(SubSeq(s, 1, Len(s) - 1)) + DigitVal(s[Len(s)])

\* Position of the first "." of s, or 0.
DotAt(s) ==
    IF \E i \in 1..Len(s) : s[i] = "."
    THEN CHOOSE i \in 1..Len(s) : s[i] = "." /\ \A j \in 1..(i - 1) : s[j] # "."
    ELSE 0

\* The special forms float() accepts besides decimal literals, as far as
\* they are written in lower case: infinity and not-a-number.
InfForms == {<<"i", "n", "f">>, <<"i", "n", "f", "i", "n", "i", "t", "y">>}

NanForms == {<<"n", "a", "n">>}

\* float(text): an optional sign, then digits with an optional fraction
\* (at least one digit), or a special form.  The value is sign * (whole +
\* 0.frac), kept as its parts; special is "inf", "nan" or "" for a finite
\* value.  Anything else raises ValueError (ok = FALSE).
ParseFloat(text) ==
    LET t    == Strip(text)
        neg  == t # <<>> /\ Head(t) = "-"
        u    == IF t # <<>> /\ Head(t) \in {"-", "+"} THEN Tail(t) ELSE t
        d    == DotAt(u)
        ip   == IF d = 0 THEN u ELSE SubSeq(u, 1, d - 1)
        fp   == IF d = 0 THEN <<>> ELSE SubSeq(u, d + 1, Len(u))
        dec  == AllDigits(ip) /\ AllDigits(fp) /\ Len(ip) + Len(fp) > 0
        ok   == dec \/ u \in InfForms \/ u \in NanForms
    IN  [ok |-> ok, neg |-> ok /\ neg,
         special |-> IF u \in InfForms THEN "inf"
                     ELSE IF u \in NanForms THEN "nan" ELSE "",
         whole |-> IF dec THEN DigitsToNat(ip) ELSE 0,
         frac |-> IF dec THEN fp ELSE <<>>]

\* int(x) of a float truncates toward zero.
TruncToInt(f) == IF f.neg THEN 0 - f.whole ELSE f.whole

\* Whether safe_int(value) raises: int() of an infinite float raises
\* OverflowError, which the except clause (ValueError, TypeError) does not
\* catch.  int() of not-a-number raises ValueError, which it catches.
safe_int_raises(value) ==
    /\ NotNa(value)
    /\ Strip(Str(value)) # EmptyStr
    /\ ParseFloat(Strip(Str(value))).ok
    /\ ParseFloat(Strip(Str(value))).special = "inf"

\* What safe_int(value) returns where it returns.
safe_int(value) ==
    IF NotNa(value) /\ Strip(Str(value)) # EmptyStr
    THEN LET f == ParseFloat(Strip(Str(value)))
         IN  IF f.ok /\ f.special = "" THEN <<TruncToInt(f)>> ELSE <<>>
    ELSE <<>>

RECURSIVE TrimZeros(_)
TrimZeros(s) ==
    IF s # <<>> /\ s[Len(s)] = "0" THEN TrimZeros(SubSeq(s, 1, Len(s) - 1)) ELSE s

\* The float a parse gave, as a value: two texts of one number give the
\* same value.
FloatValue(f) ==
    [special |-> f.special, neg |-> f.neg, whole |-> f.whole, frac |-> TrimZeros(f.frac)]

\* safe_float(value): <<the float>>, or <<>> for None.  float() of a
\* string raises nothing but ValueError.
safe_float(value) ==
    IF NotNa(value) /\ Strip(Str(value)) # EmptyStr
    THEN LET f == ParseFloat(Strip(Str(value)))
         IN  IF f.ok THEN <<FloatValue(f)>> ELSE <<>>
    ELSE <<>>

\* The function as a bug would have it: the percent sign is not removed.
parse_percentage_KeepSign(value) ==
    IF NotNa(value)
    THEN LET f == ParseFloat(Strip(Str(value)))
         IN  IF f.ok THEN <<FloatValue(f)>> ELSE <<>>
    ELSE <<>>

\* parse_percentage(value): <<the float>> of the text without one trailing
\* percent sign, or <<>> for None.
parse_percentage(value) ==
    IF NotNa(value)
    THEN LET value_str == Strip(Str(value))
             text == IF value_str # <<>> /\ value_str[Len(value_str)] = "%"
                     THEN SubSeq(value_str, 1, Len(value_str) - 1)
                     ELSE value_str
             f == ParseFloat(text)
         IN  IF f.ok THEN <<FloatValue(f)>> ELSE <<>>
    ELSE <<>>

\* ----------------------------------------------------------- timestamps

RECURSIVE NatToDigits(_)
NatToDigits(n) ==
    IF n < 10 THEN <<DigitChars[n + 1]>>
    ELSE NatToDigits(n \div 10) \o <<DigitChars[(n % 10) + 1]>>

RECURSIVE ZeroPad(_, _)
ZeroPad(s, width) == IF Len(s) >= width THEN s ELSE ZeroPad(<<"0">> \o s, width)

IsLeap(y) == (y % 4 = 0 /\ y % 100 # 0) \/ y % 400 = 0

DaysInMonth(y, m) ==
    IF m = 2 THEN (IF IsLeap(y) THEN 29 ELSE 28)
    ELSE IF m \in {4, 6, 9, 11} THEN 30 ELSE 31

\* A date and time of day that exist in the calendar and lie within the
\* range a pandas Timestamp can hold (1677-09-22 .. 2262-04-10).
ValidDatetime(y, mo, d, h, mi, s) ==
    /\ mo \in 1..12
    /\ d \in 1..DaysInMonth(y, mo)
    /\ h \in 0..23 /\ mi \in 0..59 /\ s \in 0..59
    /\ y * 10000 + mo * 100 + d >= 16770922
    /\ y * 10000 + mo * 100 + d <= 22620410

\* Whether s has the digits and separators of YYYY-MM-DD from position 1.
DateShape(s) ==
    /\ Len(s) >= 10
    /\ \A i \in {1, 2, 3, 4, 6, 7, 9, 10} : IsDigit(s[i])
    /\ s[5] = "-" /\ s[8] = "-"

\* Whether s has the shape " HH:MM:SS" (or "THH:MM:SS") at positions 11..19.
TimeShape(s) ==
    /\ Len(s) = 19
    /\ s[11] \in {" ", "T"}
    /\ \A i \in {12, 13, 15, 16, 18, 19} : IsDigit(s[i])
    /\ s[14] = ":" /\ s[17] = ":"

\* pd.to_datetime(text) for the ISO 8601 forms YYYY-MM-DD and
\* YYYY-MM-DD HH:MM:SS; every other text, and every date that does not
\* exist or is out of range, raises (ok = FALSE).
to_datetime(text) ==
    LET dateOnly == DateShape(text) /\ Len(text) = 10
        full     == DateShape(text) /\ TimeShape(text)
        num(a, b) == DigitsToNat(SubSeq(text, a, b))
        y  == IF dateOnly \/ full THEN num(1, 4) ELSE 0
        mo == IF dateOnly \/ full THEN num(6, 7) ELSE 0
        d  == IF dateOnly \/ full THEN num(9, 10) ELSE 0
        h  == IF full THEN num(12, 13) ELSE 0
        mi == IF full THEN num(15, 16) ELSE 0
        s  == IF full THEN num(18, 19) ELSE 0
    IN  [ok |-> (dateOnly \/ full) /\ ValidDatetime(y, mo, d, h, mi, s),
         y |-> y, mo |-> mo, d |-> d, h |-> h, mi |-> mi, s |-> s]

\* The format as a bug would have it: the date alone.
strftime_DateOnly(dt) ==
    ZeroPad(NatToDigits(dt.y), 4) \o <<"-">> \o ZeroPad(NatToDigits(dt.mo), 2)
        \o <<"-">> \o ZeroPad(NatToDigits(dt.d), 2)

\* dt.strftime('%Y-%m-%d %H:%M:%S')
strftime(dt) ==
    ZeroPad(NatToDigits(dt.y), 4) \o <<"-">> \o ZeroPad(NatToDigits(dt.mo), 2)
        \o <<"-">> \o ZeroPad(NatToDigits(dt.d), 2) \o <<" ">>
        \o ZeroPad(NatToDigits(dt.h), 2) \o <<":">> \o ZeroPad(NatToDigits(dt.mi), 2)
        \o <<":">> \o ZeroPad(NatToDigits(dt.s), 2)

parse_timestamp(value) ==
    IF NotNa(value) /\ Strip(Str(value)) # EmptyStr
    THEN LET dt == to_datetime(Strip(Str(value)))
         IN  IF dt.ok THEN strftime(dt) ELSE Strip(Str(value))
    ELSE None

\* ------------------------------------------------------------- ordering

Alphabet ==
    <<"\t", "\n", " ", "%", "+", "-", ".",
      "0", "1", "2", "3", "4", "5", "6", "7", "8", "9", ":",
      "A", "B", "C", "D", "E", "F", "G", "H", "I", "J", "K", "L", "M",
      "N", "O", "P", "Q", "R", "S", "T", "U", "V", "W", "X", "Y", "Z">>

CharRank(c) == CHOOSE i \in 1..Len(Alphabet) : Alphabet[i] = c

\* Text order of the store: character by character, a prefix first.
RECURSIVE StrLess(_, _)
StrLess(a, b) ==
    IF b = <<>> THEN FALSE
    ELSE IF a = <<>> THEN TRUE
    ELSE IF Head(a) = Head(b) THEN StrLess(Tail(a), Tail(b))
    ELSE CharRank(Head(a)) < CharRank(Head(b))

\* ORDER BY ... ASC on a nullable column: NULL sorts before every value.
NullsFirstLess(a, b) ==
    IF a = None THEN b # None
    ELSE IF b = None THEN FALSE
    ELSE StrLess(a, b)

\* ------------------------------------------------------- the spreadsheet

ClientsSheet == "Clients"

\* The six assessment tools, in the order populate_database_with_sheets
\* loads them.
Tools == <<"epds", "bdi", "bai", "aceq", "sads", "asrs">>

ToolSet == {Tools[i] : i \in 1..Len(Tools)}

ToolSheet ==
    [epds |-> "Edinburgh Postnatal Depression Scale (EPDS) (Responses) - EPDS Scoring",
     bdi  |-> "Beck's Depression Inventory (BDI) (Responses) - BDI Scoring",
     bai  |-> "Beck Anxiety Inventory (BAI) (Responses) - BAI Scoring",
     aceq |-> "ACE-Q Responses - ACE-Q Scoring",
     sads |-> "SADS Responses - SADS Scoring",
     asrs |-> "ASRS Responses - ASRS Scoring"]

ToolTable ==
    [epds |-> "epds_responses", bdi |-> "bdi_responses", bai |-> "bai_responses",
     aceq |-> "aceq_responses", sads |-> "sads_responses", asrs |-> "asrs_responses"]

\* The score column of each assessment sheet that the model carries (the
\* first INTEGER column of the tool's table); the further columns of a
\* sheet are copied by the same coercions and read by no query condition.
ScoreColumn ==
    [epds |-> "EPDS Total Score (Max 30)", bdi |-> "BDI Total",
     bai |-> "Total Score", aceq |-> "Total ACE Score",
     sads |-> "Social Avoidance Score", asrs |-> "Part A Score"]

\* The mapping as a bug would have it: the Notes tab has a table.
sheet_table_mapping_Notes(sheet_name) ==
    IF sheet_name = "Notes" THEN "epds_responses" ELSE ""

sheet_table_mapping(sheet_name) ==
    IF sheet_name = ClientsSheet THEN "clients"
    ELSE IF \E t \in ToolSet : ToolSheet[t] = sheet_name
         THEN ToolTable[CHOOSE t \in ToolSet : ToolSheet[t] = sheet_name]
         ELSE ""

\* The list as a bug would have it: the Clients sheet is not on it.
excluded_list_NoClients == {"Assessment Tools", "Generated Links"}

excluded_list == {"Assessment Tools", "Generated Links", "Clients"}

\* ------------------------------------------------------- inputs, bounded

\* Rows one sync reads from the Clients sheet, from the six assessment
\* sheets together, and from all sheets together.
MaxClientRows == 2

MaxRespRows == 2

MaxRows == 3

C1 == <<"C", "1">>

C2 == <<"C", "2">>

T1 == <<"T", "1">>

T2 == <<"T", "2">>

TS1 == <<"2", "0", "2", "4", "-", "0", "1", "-", "0", "5", " ",
         "1", "0", ":", "0", "0", ":", "0", "0">>

TS2 == <<"2", "0", "2", "4", "-", "0", "1", "-", "0", "6">>

\* Marks, in the cell sets below, a column the sheet does not have.
Missing == <<"Missing">>

ColID == "ID"

\* The sheet's column is named "Counsellor Assn" followed by a backquote;
\* the backquote cannot be written in a string here.
ColCounsellor == "Counsellor Assn"

ColTimestamp == "Timestamp"

ColClientCode == "Client Code"

\* A row of a sheet: a function from the column names it has to cells.
Row2(k1, v1, k2, v2) ==
    [c \in {x \in {k1, k2} : (IF x = k1 THEN v1 ELSE v2) # Missing}
        |-> IF c = k1 THEN v1 ELSE v2]

Row3(k1, v1, k2, v2, k3, v3) ==
    [c \in {x \in {k1, k2, k3} :
               (IF x = k1 THEN v1 ELSE IF x = k2 THEN v2 ELSE v3) # Missing}
        |-> IF c = k1 THEN v1 ELSE IF c = k2 THEN v2 ELSE v3]

\* The ID cells of a Clients row: absent, empty, an identifier, or an
\* identifier between blanks.
IDCells == {Missing, EmptyStr, C1, C2, <<" ">> \o C1 \o <<" ">>}

\* The selection get_therapist_client_count reads as "every therapist";
\* a cell of the Clients sheet may hold the same text.
All == <<"A", "l", "l">>

CounsellorCells == {None, EmptyStr, T1, T2, All}

ClientRows ==
    {Row2(ColID, id, ColCounsellor, th) : id \in IDCells, th \in CounsellorCells}

CodeCells == {EmptyStr, C1, C2}

TimestampCells == {EmptyStr, TS1, TS2}

\* The score cell is payload: no statement branches on it.  The n-th
\* assessment row a sync reads carries the score 20, 10, 0, so that any
\* two rows of one source differ.
ScoreCell(n) == NatToDigits((MaxRespRows + 1 - n) * 10)

RespRows(tool, n) ==
    {Row3(ColTimestamp, ts, ColClientCode, code, ScoreColumn[tool], ScoreCell(n)) :
        ts \in TimestampCells, code \in CodeCells}

\* A tab that the sheet-to-table mapping does not name, and the rows it
\* may hold: none, or one that has the columns of a Clients row and of an
\* assessment row.
NotesSheet == "Notes"

NoteRow == Row3(ColID, C1, ColCounsellor, T1, ColClientCode, C1)

NotesRows == {<<>>, <<NoteRow>>}

\* The tabs a spreadsheet may hold besides the seven mapped ones.
OtherTabs == {"Assessment Tools", "Generated Links", "Notes"}

MappedTabs == {ClientsSheet} \cup {ToolSheet[t] : t \in ToolSet}

\* The tab names in worksheet order.
TabOrder ==
    <<ClientsSheet, ToolSheet.epds, ToolSheet.bdi, ToolSheet.bai, ToolSheet.aceq,
      ToolSheet.sads, ToolSheet.asrs, "Assessment Tools", "Generated Links", "Notes">>

RECURSIVE SelectTabs(_, _)
SelectTabs(order, present) ==
    IF order = <<>> THEN <<>>
    ELSE (IF Head(order) \in present THEN <<Head(order)>> ELSE <<>>)
            \o SelectTabs(Tail(order), present)

\* The spreadsheets read: one with all ten tabs, and one without the
\* Clients sheet, the first assessment sheet and one of the other tabs.
TabChoices ==
    {SelectTabs(TabOrder, MappedTabs \cup OtherTabs),
     SelectTabs(TabOrder, (MappedTabs \cup OtherTabs)
                             \ {ClientsSheet, ToolSheet.epds, "Generated Links"})}

Range(f) == {f[i] : i \in DOMAIN f}

\* ---------------------------------------------------------------- state

VARIABLES
    pc,        \* the statement the program is at
    k,         \* the index of the loop the program is in
    caller,    \* who called full_data_refresh: "app" or "script"
    db,        \* the MySQL store
    all_tabs,  \* the sheets read from the spreadsheet, as far as iterated
    cache,     \* whether st.cache_data holds a value of get_cached_data
    refresh,   \* whether a click on the refresh button caused this page run
    synced,    \* whether this page run has run full_data_refresh
    page,      \* what the page run has queried: the tools, the counts, a frame
    call,      \* the last call of a coercion function made on its own
    reader,    \* a connection of another process that reads the store
    conns      \* the connections the program has acquired and not released

vars == <<pc, k, caller, db, all_tabs, cache, refresh, synced, page, call, reader,
          conns>>

\* No coercion function has been called on its own.
NoCall == [fn |-> "none", arg |-> None, raised |-> FALSE]

EmptyFcn == <<>>

EmptyResponses == [t \in ToolSet |-> <<>>]

EmptyStore ==
    [tables_exist |-> FALSE, clients |-> EmptyFcn, resp |-> EmptyResponses,
     sheet_config |-> EmptyFcn]

NoTabs == [names |-> <<>>, rows |-> [s \in MappedTabs \cup {NotesSheet} |-> <<>>]]

\* The statement as a bug would have it: INSERT IGNORE, which leaves the
\* row of a key that the table already has.
Replace_KeepFirst(table, key, row) ==
    [x \in (DOMAIN table) \cup {key} |-> IF x \in DOMAIN table THEN table[x] ELSE row]

\* REPLACE INTO a table with a primary key: the row of that key is
\* replaced, or the row is added.
Replace(table, key, row) ==
    [x \in (DOMAIN table) \cup {key} |-> IF x = key THEN row ELSE table[x]]

\* The order as a bug would have it: the client table is emptied first.
DeleteOrder_ClientsFirst ==
    <<"clients", "epds_responses", "bdi_responses", "bai_responses",
      "aceq_responses", "sads_responses", "asrs_responses", "sheet_config">>

\* The tables in the order populate_database_with_sheets empties them.
DeleteOrder ==
    <<"epds_responses", "bdi_responses", "bai_responses", "aceq_responses",
      "sads_responses", "asrs_responses", "sheet_config", "clients">>

\* The deletes as a bug would have them: sheet_config is left as it is.
DeleteFromTable_KeepConfig(store, table) ==
    IF table = "clients" THEN [store EXCEPT !.clients = EmptyFcn]
    ELSE IF table = "sheet_config" THEN store
    ELSE [store EXCEPT
             !.resp[CHOOSE t \in ToolSet : ToolTable[t] = table] = <<>>]

DeleteFromTable(store, table) ==
    IF table = "clients" THEN [store EXCEPT !.clients = EmptyFcn]
    ELSE IF table = "sheet_config" THEN [store EXCEPT !.sheet_config = EmptyFcn]
    ELSE [store EXCEPT
             !.resp[CHOOSE t \in ToolSet : ToolTable[t] = table] = <<>>]

\* The row the registry gets for a sheet.
ConfigRow(sheet_name) ==
    [table_name |-> sheet_table_mapping(sheet_name),
     is_excluded |-> IF sheet_name \in excluded_list THEN 1 ELSE 0]

\* Whether the Clients row passes the check on its identifier and its
\* therapist assignment.
ClientRowAccepted(row) ==
    NotNa(RowGet(row, ColID, None)) /\ NotNa(RowGet(row, ColCounsellor, None))

InsertClient(store, row) ==
    IF ClientRowAccepted(row)
    THEN [store EXCEPT !.clients =
            Replace(@, safe_str(RowGet(row, ColID, EmptyStr)),
                    [counsellor_assn |-> safe_str(RowGet(row, ColCounsellor, EmptyStr))])]
    ELSE store

\* The check as a bug would have it: every client code passes.
ClientExists_Always(store, client_code) == TRUE

\* SELECT 1 FROM clients WHERE ID = client_code
ClientExists(store, client_code) == client_code \in DOMAIN store.clients

\* The iteration as a bug would have it: the insert without the check.
InsertResponse_NoCheck(store, tool, row) ==
    [store EXCEPT !.resp[tool] = Append(@,
        [timestamp |-> parse_timestamp(RowGet(row, ColTimestamp, EmptyStr)),
         client_code |-> safe_str(RowGet(row, ColClientCode, EmptyStr)),
         score |-> safe_int(RowGet(row, ScoreColumn[tool], EmptyStr))])]

\* One iteration over an assessment sheet: the existence check and the
\* insert it guards.
InsertResponse(store, tool, row) ==
    LET client_code == safe_str(RowGet(row, ColClientCode, EmptyStr))
    IN  IF ClientExists(store, client_code)
        THEN [store EXCEPT !.resp[tool] = Append(@,
                [timestamp |-> parse_timestamp(RowGet(row, ColTimestamp, EmptyStr)),
                 client_code |-> client_code,
                 score |-> safe_int(RowGet(row, ScoreColumn[tool], EmptyStr))])]
        ELSE store

HasTab(tabs, name) == name \in Range(tabs.names)

RECURSIVE SumLen(_, _)
SumLen(rows, tools) ==
    IF tools = {} THEN 0
    ELSE LET t == CHOOSE x \in tools : TRUE
         IN  Len(rows[ToolSheet[t]]) + SumLen(rows, tools \ {t})

\* The assessment rows, and all rows, read so far in this sync.
RespRowsRead == SumLen(all_tabs.rows, ToolSet)

RowsRead == Len(all_tabs.rows[ClientsSheet]) + RespRowsRead

LogRow(tabs, sheet, row) == [tabs EXCEPT !.rows[sheet] = Append(@, row)]

\* ------------------------------------------------------- store queries

\* The names a collation puts in ascending order, the ten tab names in
\* alphabetical order.
SheetNameOrder ==
    <<ToolSheet.aceq, ToolSheet.asrs, "Assessment Tools", ToolSheet.bai,
      ToolSheet.bdi, ClientsSheet, ToolSheet.epds, "Generated Links", "Notes",
      ToolSheet.sads>>

\* SELECT sheet_name FROM sheet_config WHERE is_excluded = 0 ORDER BY sheet_name
get_available_tools(store) ==
    SelectTabs(SheetNameOrder,
               {n \in DOMAIN store.sheet_config : store.sheet_config[n].is_excluded = 0})

RECURSIVE SortStrings(_)
SortStrings(S) ==
    IF S = {} THEN <<>>
    ELSE LET m == CHOOSE x \in S : \A y \in S : ~StrLess(y, x)
         IN  <<m>> \o SortStrings(S \ {m})

\* FROM clients c LEFT JOIN <tool>_responses ON c.ID = client_code, for the
\* six tools: per client the combinations of its matching rows' client
\* codes, NULL where a tool has no matching row.
LeftJoinCodes(store, tool, id) ==
    LET m == {r.client_code : r \in {x \in Range(store.resp[tool]) : x.client_code = id}}
    IN  IF m = {} THEN {None} ELSE m

JoinedRows(store) ==
    UNION {{[ID |-> id, counsellor_assn |-> store.clients[id].counsellor_assn,
             code |-> f] :
               f \in {g \in [ToolSet -> {id, None}] :
                        \A t \in ToolSet : g[t] \in LeftJoinCodes(store, t, id)}} :
           id \in DOMAIN store.clients}

\* COUNT(DISTINCT col): the distinct values that are not NULL.
CountDistinct(values) == Cardinality(values \ {None})

\* One row per therapist, ordered by therapist.
get_therapist_comprehensive_counts(store) ==
    LET joined == {r \in JoinedRows(store) : r.counsellor_assn # None}
        names  == SortStrings({r.counsellor_assn : r \in joined})
        group(th) == {r \in joined : r.counsellor_assn = th}
    IN  [i \in 1..Len(names) |->
            [therapist_name |-> names[i],
             total_clients |-> CountDistinct({r.ID : r \in group(names[i])}),
             tool_clients |-> [t \in ToolSet |->
                 CountDistinct({r.code[t] : r \in group(names[i])})]]]

get_therapist_client_counts(store) ==
    LET comprehensive_data == get_therapist_comprehensive_counts(store)
    IN  [i \in DOMAIN comprehensive_data |->
            <<comprehensive_data[i].therapist_name, comprehensive_data[i].total_clients>>]

get_therapist_client_count(store, therapist_name) ==
    IF therapist_name = All
    THEN CountDistinct({id \in DOMAIN store.clients :
                           store.clients[id].counsellor_assn # None})
    ELSE CountDistinct({id \in DOMAIN store.clients :
                           /\ store.clients[id].counsellor_assn = therapist_name
                           /\ store.clients[id].counsellor_assn # None})

\* The tool keywords a tab name contains.
Keywords(tool_name) ==
    IF \E t \in ToolSet : ToolSheet[t] = tool_name
    THEN {CHOOSE t \in ToolSet : ToolSheet[t] = tool_name}
    ELSE {}

\* The response table get_tool_data reads for a tool name: the first of
\* EPDS, BDI, BAI, ACE-Q, SADS, ASRS the name contains, or "none".
ToolOfName(tool_name) ==
    IF \E i \in 1..Len(Tools) : Tools[i] \in Keywords(tool_name)
    THEN Tools[CHOOSE i \in 1..Len(Tools) :
                  /\ Tools[i] \in Keywords(tool_name)
                  /\ \A j \in 1..(i - 1) : Tools[j] \notin Keywords(tool_name)]
    ELSE "none"

\* The function as a bug would have it: a table for every name.
TableOfName_Default(tool_name) ==
    IF ToolOfName(tool_name) # "none" THEN ToolTable[ToolOfName(tool_name)]
    ELSE "clients"

\* The table get_therapist_clients_for_tool settles on, "" for None.  Its
\* loop stops at the first key of tool_table_mapping that the tool name
\* contains, or at the first key at all if the name contains a keyword;
\* the table is that of the first keyword the name contains, "clients"
\* for the name "Clients", and None otherwise.
TableOfName(tool_name) ==
    IF ToolOfName(tool_name) # "none" THEN ToolTable[ToolOfName(tool_name)]
    ELSE IF tool_name = "Clients" THEN "clients"
    ELSE ""

\* get_therapist_clients_for_tool(therapist_name, tool_name) on a store;
\* query_ok is whether cursor.execute returns (it raises for one where
\* the tables do not exist), and the except clause makes the count 0.
get_therapist_clients_for_tool(store, therapist_name, tool_name, query_ok) ==
    LET table_name == TableOfName(tool_name)
        mine(id) == IF therapist_name = All
                    THEN store.clients[id].counsellor_assn # None
                    ELSE store.clients[id].counsellor_assn = therapist_name
    IN  IF table_name = "" THEN 0
        ELSE IF ~query_ok \/ ~store.tables_exist THEN 0
        ELSE IF table_name = "clients"
        THEN CountDistinct({id \in DOMAIN store.clients : mine(id)})
        ELSE LET t == CHOOSE x \in ToolSet : ToolTable[x] = table_name
             IN  CountDistinct({r.client_code : r \in
                    {x \in Range(store.resp[t]) :
                        x.client_code \in DOMAIN store.clients /\ mine(x.client_code)}})

Perms(n) == {p \in [1..n -> 1..n] : \A i, j \in 1..n : p[i] = p[j] => i = j}

\* The order as a bug would have it: the latest timestamp first.
RowBefore_Desc(a, b) ==
    \/ StrLess(a.client_code, b.client_code)
    \/ a.client_code = b.client_code /\ NullsFirstLess(b.timestamp, a.timestamp)

\* ORDER BY client_code, timestamp
RowBefore(a, b) ==
    \/ StrLess(a.client_code, b.client_code)
    \/ a.client_code = b.client_code /\ NullsFirstLess(a.timestamp, b.timestamp)

\* The orders in which the store may deliver the rows under ORDER BY
\* client_code, timestamp: rows that tie come in any order.
SortedPerms(rows) ==
    {p \in Perms(Len(rows)) :
        \A i, j \in 1..Len(rows) : i < j => ~RowBefore(rows[p[j]], rows[p[i]])}

\* The numbering as a bug would have it: one count over all clients.
RowNumber_NoPartition(rows, p, i) == i

\* ROW_NUMBER() OVER (PARTITION BY client_code ORDER BY timestamp) of the
\* row at place i of the window order p.
RowNumber(rows, p, i) ==
    Cardinality({j \in 1..i : rows[p[j]].client_code = rows[p[i]].client_code})

SessionNumber(rows, p, r) == RowNumber(rows, p, CHOOSE i \in 1..Len(rows) : p[i] = r)

\* The data frames get_tool_data may return for an assessment tool: one
\* for each order of the window and each order of the result.
ToolFrames(store, tool) ==
    LET rows == store.resp[tool]
    IN  {[i \in 1..Len(rows) |->
            [Timestamp |-> rows[q[i]].timestamp,
             ClientCode |-> rows[q[i]].client_code,
             Score |-> rows[q[i]].score,
             SessionNumber |-> SessionNumber(rows, p, q[i])]] :
          p \in SortedPerms(rows), q \in SortedPerms(rows)}

\* The frames for the Clients tab: the client rows, in any order.
ClientFrames(store) ==
    LET ids == SortStrings(DOMAIN store.clients)
    IN  {[i \in 1..Len(ids) |->
            [ID |-> ids[q[i]], CounsellorAssn |-> store.clients[ids[q[i]]].counsellor_assn]] :
          q \in Perms(Len(ids))}

\* get_tool_data(tool_name): every data frame the call may return.  A
\* failing query (the tables do not exist) gives the empty frame.
get_tool_data(store, tool_name) ==
    IF ~store.tables_exist THEN {<<>>}
    ELSE IF tool_name = ClientsSheet THEN ClientFrames(store)
    ELSE IF ToolOfName(tool_name) # "none" THEN ToolFrames(store, ToolOfName(tool_name))
    ELSE {<<>>}

\* SELECT COUNT(*) FROM clients, with every failure taken as "not
\* populated".
check_database_populated(store) ==
    IF store.tables_exist THEN Cardinality(DOMAIN store.clients) > 0 ELSE FALSE

\* No other connection is followed.  Of one that is, committed is the
\* store as of the last commit, which is what its queries read, seen is
\* what its last query read, and during is whether that query ran between
\* the first delete and the commit of a sync.
NoReader == [open |-> FALSE, committed |-> EmptyStore, seen |-> EmptyStore,
             during |-> FALSE]

\* What a page run holds before it has queried anything.
BlankPage ==
    [available_tools |-> <<>>, therapist_client_counts |-> <<>>,
     view |-> [tool_name |-> "", df |-> <<>>, error |-> FALSE], failed |-> FALSE]

\* ---------------------------------------------------------------- steps

Init ==
    /\ pc = "idle"
    /\ k = 0
    /\ caller = "none"
    /\ db = EmptyStore
    /\ all_tabs = NoTabs
    /\ cache = FALSE
    /\ refresh = FALSE
    /\ synced = FALSE
    /\ page = BlankPage
    /\ call = NoCall
    /\ reader = NoReader
    /\ conns = 0

\* populate_mysql.py: init_database() and then full_data_refresh(), which
\* calls init_database() again.
PopulateMysqlMain ==
    /\ pc = "idle"
    /\ db' = [db EXCEPT !.tables_exist = TRUE]
    /\ caller' = "script"
    /\ pc' = "load"
    /\ UNCHANGED <<call, reader, k, all_tabs, cache, refresh, synced, page, conns>>

\* A run of the app's script that no click on the refresh button caused:
\* init_database(), the button is not pressed, and the populated check is
\* next.
PageRun ==
    /\ pc = "idle"
    /\ db' = [db EXCEPT !.tables_exist = TRUE]
    /\ refresh' = FALSE
    /\ synced' = FALSE
    /\ pc' = "check"
    /\ UNCHANGED <<call, reader, k, caller, all_tabs, cache, page, conns>>

\* The operator clicks the refresh button: the script runs with the button
\* pressed, clears the cache and reruns; the rerun is at the populated
\* check next.
RefreshClick ==
    /\ pc = "idle"
    /\ db' = [db EXCEPT !.tables_exist = TRUE]
    /\ cache' = FALSE
    /\ refresh' = TRUE
    /\ synced' = FALSE
    /\ pc' = "check"
    /\ UNCHANGED <<call, reader, k, caller, all_tabs, page, conns>>

\* The branch as a bug would have it: a populated store is synced again.
CheckDatabasePopulated_SyncsAnyway ==
    /\ pc = "check"
    /\ \E connects \in BOOLEAN :
          IF connects /\ check_database_populated(db)
          THEN pc' = "load" /\ all_tabs' = NoTabs /\ caller' = "app"
          ELSE pc' = "get_cached_data" /\ all_tabs' = all_tabs /\ caller' = caller
    /\ UNCHANGED <<call, reader, k, db, cache, refresh, synced, page, conns>>

\* if check_database_populated(): all_tabs = {}; else get_cached_data().
\* The connection of the check may fail; the except clause of
\* check_database_populated turns the failure into False.
CheckDatabasePopulated ==
    /\ pc = "check"
    /\ \E connects \in BOOLEAN :
          IF connects /\ check_database_populated(db)
          THEN pc' = "available_tools" /\ all_tabs' = NoTabs
          ELSE pc' = "get_cached_data" /\ all_tabs' = all_tabs
    /\ UNCHANGED <<call, reader, k, caller, db, cache, refresh, synced, page, conns>>

\* get_cached_data under st.cache_data: with a cached value the body does
\* not run; without one it runs full_data_refresh, which starts with
\* init_database().  The value returned is read by no later statement.
GetCachedData ==
    /\ pc = "get_cached_data"
    /\ IF cache
       THEN pc' = "available_tools" /\ caller' = caller
       ELSE pc' = "load" /\ caller' = "app"
    /\ UNCHANGED <<call, reader, k, db, all_tabs, cache, refresh, synced, page, conns>>

\* load_spreadsheet_data: the tabs of the spreadsheet.  The rows of a tab
\* are drawn when populate_database_with_sheets iterates over them.
LoadSpreadsheetData ==
    /\ pc = "load"
    /\ \E names \in TabChoices, notes \in NotesRows :
          all_tabs' = [NoTabs EXCEPT !.names = names, !.rows[NotesSheet] = notes]
    /\ pc' = "delete"
    /\ k' = 1
    /\ UNCHANGED <<call, reader, caller, db, cache, refresh, synced, page, conns>>

\* The deletes as they would run on a connection that commits every
\* statement.
DeleteStatement_Autocommit ==
    /\ pc = "delete"
    /\ db' = DeleteFromTable(db, DeleteOrder[k])
    /\ IF k < Len(DeleteOrder)
       THEN pc' = pc /\ k' = k + 1
       ELSE pc' = "config" /\ k' = 1
    /\ reader' = IF reader.open THEN [reader EXCEPT !.committed = db'] ELSE reader
    /\ conns' = 1
    /\ UNCHANGED <<call, caller, all_tabs, cache, refresh, synced, page>>

\* One DELETE of populate_database_with_sheets, on the connection that
\* get_mysql_connection opened before the first of them: in its
\* transaction, not committed.
DeleteStatement ==
    /\ pc = "delete"
    /\ db' = DeleteFromTable(db, DeleteOrder[k])
    /\ IF k < Len(DeleteOrder)
       THEN pc' = pc /\ k' = k + 1
       ELSE pc' = "config" /\ k' = 1
    /\ conns' = 1
    /\ UNCHANGED <<call, reader, caller, all_tabs, cache, refresh, synced, page>>

PopulateSheetConfig ==
    /\ pc = "config"
    /\ db' = [db EXCEPT !.sheet_config =
                Replace(@, all_tabs.names[k], ConfigRow(all_tabs.names[k]))]
    /\ IF k < Len(all_tabs.names)
       THEN pc' = pc /\ k' = k + 1
       ELSE pc' = "clients" /\ k' = 0
    /\ UNCHANGED <<call, reader, caller, all_tabs, cache, refresh, synced, page, conns>>

PopulateClientsRow ==
    /\ pc = "clients"
    /\ HasTab(all_tabs, ClientsSheet)
    /\ Len(all_tabs.rows[ClientsSheet]) < MaxClientRows
    /\ RowsRead < MaxRows
    /\ \E row \in ClientRows :
          /\ all_tabs' = LogRow(all_tabs, ClientsSheet, row)
          /\ db' = InsertClient(db, row)
    /\ UNCHANGED <<call, reader, pc, k, caller, cache, refresh, synced, page, conns>>

PopulateClientsEnd ==
    /\ pc = "clients"
    /\ pc' = "responses"
    /\ k' = 1
    /\ UNCHANGED <<call, reader, caller, db, all_tabs, cache, refresh, synced, page, conns>>

\* The loops over the assessment sheets as they would run if they were not
\* placed after the loop over the Clients sheet.
PopulateResponsesRow_Early ==
    /\ pc \in {"clients", "responses"}
    /\ RespRowsRead < MaxRespRows
    /\ RowsRead < MaxRows
    /\ \E j \in (IF pc = "clients" THEN 1 ELSE k)..Len(Tools) :
          /\ HasTab(all_tabs, ToolSheet[Tools[j]])
          /\ k' = (IF pc = "clients" THEN k ELSE j)
          /\ \E row \in RespRows(Tools[j], RespRowsRead + 1) :
                /\ all_tabs' = LogRow(all_tabs, ToolSheet[Tools[j]], row)
                /\ db' = InsertResponse(db, Tools[j], row)
    /\ UNCHANGED <<call, reader, pc, caller, cache, refresh, synced, page, conns>>

\* One iteration over the rows of an assessment sheet: of the sheet the
\* program is at, or of a later one, the sheets between having no further
\* row.
PopulateResponsesRow ==
    /\ pc = "responses"
    /\ RespRowsRead < MaxRespRows
    /\ RowsRead < MaxRows
    /\ \E j \in k..Len(Tools) :
          /\ HasTab(all_tabs, ToolSheet[Tools[j]])
          /\ k' = j
          /\ \E row \in RespRows(Tools[j], RespRowsRead + 1) :
                /\ all_tabs' = LogRow(all_tabs, ToolSheet[Tools[j]], row)
                /\ db' = InsertResponse(db, Tools[j], row)
    /\ UNCHANGED <<call, reader, pc, caller, cache, refresh, synced, page, conns>>

\* No sheet has a further row: conn.commit(), cursor.close(), conn.close(),
\* and populate_database_with_sheets returns.  The connection was opened with
\* autocommit off, so this is the first moment another connection can read
\* what the statements since the first delete have done.
Commit ==
    /\ pc = "responses"
    /\ pc' = "done"
    /\ k' = 0
    /\ reader' = IF reader.open THEN [reader EXCEPT !.committed = db] ELSE reader
    /\ conns' = 0
    /\ UNCHANGED <<call, caller, db, all_tabs, cache, refresh, synced, page>>

\* full_data_refresh returns all_tabs.  In the app the value is cached and
\* the page goes on; populate_mysql.py ends.  No later statement reads the
\* value.  Another connection is followed until the sync it overlapped
\* with has returned.
FullDataRefreshReturn ==
    /\ pc = "done"
    /\ IF caller = "app"
       THEN pc' = "available_tools" /\ cache' = TRUE /\ synced' = TRUE
       ELSE pc' = "idle" /\ cache' = cache /\ synced' = synced
    /\ caller' = "none"
    /\ all_tabs' = NoTabs
    /\ reader' = NoReader
    /\ UNCHANGED <<call, k, db, refresh, page, conns>>

GetAvailableTools ==
    /\ pc = "available_tools"
    /\ page' = [page EXCEPT !.available_tools = get_available_tools(db)]
    /\ pc' = "counts"
    /\ UNCHANGED <<call, reader, k, caller, db, all_tabs, cache, refresh, synced, conns>>

GetTherapistClientCounts ==
    /\ pc = "counts"
    /\ page' = [page EXCEPT !.therapist_client_counts = get_therapist_client_counts(db)]
    /\ pc' = "render"
    /\ k' = 1
    /\ UNCHANGED <<call, reader, caller, db, all_tabs, cache, refresh, synced, conns>>

\* The loop as a bug would have it: a failed query ends the page run.
RenderTool_StopOnError ==
    /\ pc = "render"
    /\ k <= Len(page.available_tools)
    /\ \E query_ok \in BOOLEAN :
          IF query_ok
          THEN /\ \E df \in get_tool_data(db, page.available_tools[k]) :
                     page' = [page EXCEPT !.view = [tool_name |-> page.available_tools[k],
                                                    df |-> df, error |-> FALSE]]
               /\ k' = k + 1
               /\ pc' = pc
          ELSE /\ page' = [page EXCEPT !.view = [tool_name |-> page.available_tools[k],
                                                df |-> <<>>, error |-> TRUE],
                                      !.failed = TRUE]
               /\ k' = 0
               /\ pc' = "idle"
    /\ UNCHANGED <<call, reader, caller, db, all_tabs, cache, refresh, synced, conns>>

\* One iteration of the loop that shows each available tool.  The query
\* of get_tool_data may fail: the except clause shows the error and makes
\* the frame empty, the loop warns that there is no data and continues.
RenderTool ==
    /\ pc = "render"
    /\ k <= Len(page.available_tools)
    /\ \E query_ok \in BOOLEAN :
          \E df \in (IF query_ok THEN get_tool_data(db, page.available_tools[k])
                     ELSE {<<>>}) :
              page' = [page EXCEPT !.view = [tool_name |-> page.available_tools[k],
                                             df |-> df, error |-> ~query_ok],
                                   !.failed = @ \/ ~query_ok]
    /\ k' = k + 1
    /\ pc' = pc
    /\ UNCHANGED <<call, reader, caller, db, all_tabs, cache, refresh, synced, conns>>

\* The script has shown every tool and ends; its variables go with it,
\* the cache stays.
PageEnd ==
    /\ pc = "render"
    /\ k > Len(page.available_tools)
    /\ pc' = "idle"
    /\ k' = 0
    /\ page' = BlankPage
    /\ refresh' = FALSE
    /\ synced' = FALSE
    /\ UNCHANGED <<call, reader, caller, db, all_tabs, cache, conns>>

Next ==
    \/ PopulateMysqlMain
    \/ PageRun
    \/ RefreshClick
    \/ CheckDatabasePopulated
    \/ GetCachedData
    \/ LoadSpreadsheetData
    \/ DeleteStatement
    \/ PopulateSheetConfig
    \/ PopulateClientsRow
    \/ PopulateClientsEnd
    \/ PopulateResponsesRow
    \/ Commit
    \/ FullDataRefreshReturn
    \/ GetAvailableTools
    \/ GetTherapistClientCounts
    \/ RenderTool
    \/ PageEnd

Spec == Init /\ [][Next]_vars

\* ------------------------------------------- a store left by earlier syncs

\* Rows of the assessment sheet that the sync which left the store read.
MaxStoredRows == 3

StoredClientRows ==
    {Row2(ColID, id, ColCounsellor, th) : id \in {C1, C2}, th \in {T1, T2}}

StoredRespRows(tool, n) ==
    {Row3(ColTimestamp, ts, ColClientCode, code, ScoreColumn[tool], ScoreCell(n)) :
        ts \in TimestampCells, code \in {C1, C2}}

\* The sequences of n rows of an assessment sheet.
RECURSIVE StoredRespSeqs(_, _)
StoredRespSeqs(tool, n) ==
    IF n = 0 THEN {<<>>}
    ELSE {Append(q, r) : q \in StoredRespSeqs(tool, n - 1), r \in StoredRespRows(tool, n)}

\* The statements of populate_database_with_sheets in their order, on the
\* sheet names, the rows of the Clients sheet and the rows of one
\* assessment sheet.
RECURSIVE ConfigLoop(_, _)
ConfigLoop(store, names) ==
    IF names = <<>> THEN store
    ELSE ConfigLoop([store EXCEPT !.sheet_config =
                        Replace(@, Head(names), ConfigRow(Head(names)))],
                    Tail(names))

RECURSIVE ClientsLoop(_, _)
ClientsLoop(store, rows) ==
    IF rows = <<>> THEN store
    ELSE ClientsLoop(InsertClient(store, Head(rows)), Tail(rows))

RECURSIVE ResponsesLoop(_, _, _)
ResponsesLoop(store, tool, rows) ==
    IF rows = <<>> THEN store
    ELSE ResponsesLoop(InsertResponse(store, tool, Head(rows)), tool, Tail(rows))

populate_database_with_sheets(names, client_rows, tool, resp_rows) ==
    ResponsesLoop(
        ClientsLoop(ConfigLoop([EmptyStore EXCEPT !.tables_exist = TRUE], names),
                    client_rows),
        tool, resp_rows)

\* The program starts against the store that an earlier sync of a
\* spreadsheet with all tabs has committed.
InitStored ==
    /\ pc = "idle"
    /\ k = 0
    /\ caller = "none"
    /\ \E nc \in 0..MaxClientRows, nr \in 0..MaxStoredRows, t \in ToolSet :
          \E client_rows \in [1..nc -> StoredClientRows] :
              \E resp_rows \in StoredRespSeqs(t, nr) :
                  db = populate_database_with_sheets(TabOrder, client_rows, t, resp_rows)
    /\ all_tabs = NoTabs
    /\ cache = FALSE
    /\ refresh = FALSE
    /\ synced = FALSE
    /\ page = BlankPage
    /\ call = NoCall
    /\ reader = NoReader
    /\ conns = 0

SpecStored == InitStored /\ [][Next]_vars

\* ------------------------------------------- the coercions on their own

\* Length of the texts the coercion functions are called with.
MaxTextLen == 3

CoerceChars == {"1", "7", ".", "-", "%", " ", "a"}

RECURSIVE Texts(_)
Texts(n) ==
    IF n = 0 THEN {<<>>}
    ELSE Texts(n - 1) \cup {Append(t, c) : t \in Texts(n - 1), c \in CoerceChars}

\* Texts of numbers, of percentages and of special forms of float().
NumberTexts ==
    {<<"6", "7">>, <<"6", "7", "%">>, <<"6", "7", ".", "0">>, <<"6", "7", ".", "5", "%">>,
     <<"6", "7", " ", "%">>, <<"a", "b", "c">>, <<"%">>,
     <<"i", "n", "f">>, <<"-", "i", "n", "f">>, <<"i", "n", "f", "%">>,
     <<"i", "n", "f", "i", "n", "i", "t", "y">>, <<"n", "a", "n">>,
     <<"7", ".", "9">>, <<"-", "1", ".", "5">>}

\* Texts of timestamps: canonical, with the separator T, of a date alone,
\* padded with blanks, of the 30th of February, and out of the range of a
\* pandas Timestamp.
TimestampTexts ==
    {TS1, TS2,
     <<"2", "0", "2", "4", "-", "0", "1", "-", "0", "5", "T",
       "1", "0", ":", "0", "0", ":", "0", "0">>,
     <<" ">> \o TS1 \o <<" ">>,
     <<"2", "0", "2", "4", "-", "0", "2", "-", "3", "0", " ",
       "1", "0", ":", "0", "0", ":", "0", "0">>,
     <<"2", "0", "2", "4", "-", "0", "2", "-", "2", "9", " ",
       "2", "3", ":", "5", "9", ":", "5", "9">>,
     <<"9", "9", "9", "9", "-", "0", "1", "-", "0", "1", " ",
       "0", "0", ":", "0", "0", ":", "0", "0">>}

\* The values a cell may hold: None for an absent value, or a text (a
\* number in a cell reaches the coercions through str()).
CoerceInputs == {None} \cup Texts(MaxTextLen) \cup NumberTexts \cup TimestampTexts

InitCoerce ==
    /\ pc = "idle"
    /\ k = 0
    /\ caller = "none"
    /\ db = EmptyStore
    /\ all_tabs = NoTabs
    /\ cache = FALSE
    /\ refresh = FALSE
    /\ synced = FALSE
    /\ page = BlankPage
    /\ call = NoCall
    /\ reader = NoReader
    /\ conns = 0

CallSafeInt ==
    /\ \E value \in CoerceInputs :
          call' = [fn |-> "safe_int", arg |-> value, raised |-> safe_int_raises(value)]
    /\ UNCHANGED <<pc, k, caller, db, all_tabs, cache, refresh, synced, page, reader, conns>>

CallSafeFloat ==
    /\ \E value \in CoerceInputs :
          call' = [fn |-> "safe_float", arg |-> value, raised |-> FALSE]
    /\ UNCHANGED <<pc, k, caller, db, all_tabs, cache, refresh, synced, page, reader, conns>>

CallParsePercentage ==
    /\ \E value \in CoerceInputs :
          call' = [fn |-> "parse_percentage", arg |-> value, raised |-> FALSE]
    /\ UNCHANGED <<pc, k, caller, db, all_tabs, cache, refresh, synced, page, reader, conns>>

CallParseTimestamp ==
    /\ \E value \in CoerceInputs :
          call' = [fn |-> "parse_timestamp", arg |-> value, raised |-> FALSE]
    /\ UNCHANGED <<pc, k, caller, db, all_tabs, cache, refresh, synced, page, reader, conns>>

NextCoerce ==
    \/ CallSafeInt
    \/ CallSafeFloat
    \/ CallParsePercentage
    \/ CallParseTimestamp

SpecCoerce == InitCoerce /\ [][NextCoerce]_vars

\* ----------------------------------- queries that the page does not call

\* The tool names and therapist selections of the calls: the Clients
\* sheet, the first and the last assessment sheet, two tabs without a
\* table and a name that contains "Clients"; "All", a therapist of the
\* store and one the store does not have.
QueryToolNames ==
    {ClientsSheet, ToolSheet.epds, ToolSheet.asrs, "Notes", "Assessment Tools",
     "Clients Archive"}

QueryTherapists == {All, T1, <<"T", "9">>}

CallGetTherapistClientsForTool ==
    /\ \E th \in QueryTherapists, name \in QueryToolNames, ok \in BOOLEAN :
          call' = [fn |-> "get_therapist_clients_for_tool",
                   arg |-> [therapist_name |-> th, tool_name |-> name, query_ok |-> ok],
                   raised |-> FALSE]
    /\ UNCHANGED <<pc, k, caller, db, all_tabs, cache, refresh, synced, page, reader, conns>>

NextQuery == CallGetTherapistClientsForTool

SpecQuery == InitStored /\ [][NextQuery]_vars

\* ------------------------------------- a reader on another connection

\* The store that the sync before the one followed has committed: one
\* client of one therapist with one EPDS response.
PriorStore ==
    populate_database_with_sheets(
        TabOrder,
        <<Row2(ColID, C1, ColCounsellor, T1)>>,
        "epds",
        <<Row3(ColTimestamp, TS1, ColClientCode, C1, ScoreColumn["epds"], ScoreCell(1))>>)

\* A sync has run between its first DELETE and its commit.
InSync ==
    \/ pc = "delete" /\ k > 1
    \/ pc \in {"config", "clients", "responses"}

\* Another process holds a connection to the store and has read it once.
InitReader ==
    /\ pc = "idle"
    /\ k = 0
    /\ caller = "none"
    /\ db = PriorStore
    /\ all_tabs = NoTabs
    /\ cache = FALSE
    /\ refresh = FALSE
    /\ synced = FALSE
    /\ page = BlankPage
    /\ call = NoCall
    /\ reader = [open |-> TRUE, committed |-> PriorStore, seen |-> PriorStore,
                 during |-> FALSE]
    /\ conns = 0

\* The other process runs a query: a connection of its own
\* (get_mysql_connection) reads what has been committed, never the
\* uncommitted statements of the sync's connection.
ReaderQuery ==
    /\ reader.open
    /\ reader' = [reader EXCEPT !.seen = reader.committed, !.during = InSync]
    /\ UNCHANGED <<pc, k, caller, db, all_tabs, cache, refresh, synced, page, call, conns>>

\* The failure as the store would take it if every statement were committed
\* as it ran: what the sync has done so far stays.
SyncFails_KeepsWork ==
    /\ reader.open
    /\ pc \in {"delete", "config", "clients", "responses"}
    /\ pc' = "failed"
    /\ conns' = 1
    /\ UNCHANGED <<k, caller, db, all_tabs, cache, refresh, synced, page, call, reader>>

\* A statement of populate_database_with_sheets raises.  The function has
\* no try: the exception leaves it before conn.commit(), the connection is
\* dropped with its transaction open, and the store discards what the
\* transaction did.  What any connection reads from then on is the store of
\* the last commit.  cursor.close() and conn.close() are not reached: the
\* function has exited and its connection is still open.
SyncFails ==
    /\ reader.open
    /\ pc \in {"delete", "config", "clients", "responses"}
    /\ pc' = "failed"
    /\ db' = reader.committed
    /\ conns' = 1
    /\ UNCHANGED <<k, caller, all_tabs, cache, refresh, synced, page, call, reader>>

\* The exception ends populate_mysql.py, or the run of the page: nothing is
\* cached, since get_cached_data did not return.  The connection object
\* goes with the frame that held it, without a call of close().
FailureEnds ==
    /\ pc = "failed"
    /\ pc' = "idle"
    /\ k' = 0
    /\ caller' = "none"
    /\ all_tabs' = NoTabs
    /\ page' = BlankPage
    /\ refresh' = FALSE
    /\ synced' = FALSE
    /\ conns' = 0
    /\ UNCHANGED <<db, cache, call, reader>>

NextReader ==
    \/ Next
    \/ ReaderQuery
    \/ SyncFails
    \/ FailureEnds

SpecReader == InitReader /\ [][NextReader]_vars

\* ------------------------------------------- the sync of pull_build

\* The loop of pull_build over the rows of an assessment sheet: every row
\* is inserted; no statement looks the client code up in clients, and the
\* connection does not enforce the foreign key.
RECURSIVE PullResponsesLoop(_, _, _)
PullResponsesLoop(store, tool, rows) ==
    IF rows = <<>> THEN store
    ELSE PullResponsesLoop(
            [store EXCEPT !.resp[tool] = Append(@,
                [timestamp |-> parse_timestamp(RowGet(Head(rows), ColTimestamp, EmptyStr)),
                 client_code |-> safe_str(RowGet(Head(rows), ColClientCode, EmptyStr)),
                 score |-> safe_int(RowGet(Head(rows), ScoreColumn[tool], EmptyStr))])],
            tool, Tail(rows))

\* populate_database_with_sheets of pull_build on a store: the eight
\* deletes, the registry, the Clients rows, the rows of one assessment
\* sheet, the other sheets being empty.
pull_build_populate_database_with_sheets(store, names, client_rows, tool, resp_rows) ==
    LET cleared == [store EXCEPT !.clients = EmptyFcn, !.resp = EmptyResponses,
                                 !.sheet_config = EmptyFcn]
        config  == ConfigLoop(cleared, names)
        clients == IF ClientsSheet \in Range(names)
                   THEN ClientsLoop(config, client_rows) ELSE config
    IN  IF ToolSheet[tool] \in Range(names)
        THEN PullResponsesLoop(clients, tool, resp_rows)
        ELSE clients

\* The tools whose sheets the sources of this section fill.
PullTools == {"epds", "asrs"}

RECURSIVE PullRespSeqs(_, _)
PullRespSeqs(tool, n) ==
    IF n = 0 THEN {<<>>}
    ELSE PullRespSeqs(tool, n - 1)
         \cup {Append(q, r) : q \in {x \in PullRespSeqs(tool, n - 1) : Len(x) = n - 1},
                              r \in RespRows(tool, n)}

\* The program starts against a store with its tables, empty or as an
\* earlier sync left it.
InitPull ==
    /\ pc = "idle"
    /\ k = 0
    /\ caller = "none"
    /\ db \in {[EmptyStore EXCEPT !.tables_exist = TRUE], PriorStore}
    /\ all_tabs = NoTabs
    /\ cache = FALSE
    /\ refresh = FALSE
    /\ synced = FALSE
    /\ page = BlankPage
    /\ call = NoCall
    /\ reader = NoReader
    /\ conns = 0

\* One call of pull_build's populate_database_with_sheets, commit and
\* close included, on a spreadsheet with all tabs.
PullBuildSync ==
    /\ pc = "idle"
    /\ \E nc \in 0..MaxClientRows, tool \in PullTools :
          \E client_rows \in [1..nc -> ClientRows], resp_rows \in PullRespSeqs(tool, MaxRespRows) :
              /\ all_tabs' = [names |-> TabOrder,
                              rows |-> [NoTabs.rows EXCEPT ![ClientsSheet] = client_rows,
                                                           ![ToolSheet[tool]] = resp_rows]]
              /\ db' = pull_build_populate_database_with_sheets(
                           db, TabOrder, client_rows, tool, resp_rows)
    /\ pc' = "pull_done"
    /\ UNCHANGED <<k, caller, cache, refresh, synced, page, call, reader, conns>>

NextPull == PullBuildSync

SpecPull == InitPull /\ [][NextPull]_vars

\* ------------------------------------------------- the chart of a tool

\* The traces of the figure as a bug would have them: the average for any
\* two clients.
Chart_AverageForTwoClients(viz_df) ==
    LET clients == {viz_df[i].ClientCode : i \in 1..Len(viz_df)}
    IN  [clients |-> clients, average |-> Cardinality(clients) > 1]

\* The traces the figure gets for the filtered frame: one for each value of
\* unique() of the client column, whose rows are never empty, and the
\* trace "Average" if there is more than one client and avg_trajectory,
\* which has one row for each session number, has more than one row.
Chart(viz_df) ==
    LET clients == {viz_df[i].ClientCode : i \in 1..Len(viz_df)}
        client_data(c) == {i \in 1..Len(viz_df) : viz_df[i].ClientCode = c}
        avg_trajectory == {viz_df[i].SessionNumber : i \in 1..Len(viz_df)}
    IN  [clients |-> {c \in clients : client_data(c) # {}},
         average |-> Cardinality(clients) > 1 /\ Cardinality(avg_trajectory) > 1]

\* The sessions a client has in a frame, at most.
MaxSessions == 2

ChartClients == {C1, C2, <<"C", "3">>}

ChartScores == {<<10>>, <<20>>}

\* The rows of one client in a frame: the sessions 1..n.
RECURSIVE ChartRows(_, _)
ChartRows(c, n) ==
    IF n = 0 THEN {<<>>}
    ELSE {Append(q, [Timestamp |-> TS1, ClientCode |-> c, Score |-> sc,
                     SessionNumber |-> n]) :
             q \in ChartRows(c, n - 1), sc \in ChartScores}

ChartRowsUpTo(c) == UNION {ChartRows(c, n) : n \in 0..MaxSessions}

\* The frames that reach the chart: not empty, the sessions of each client
\* numbered from 1.
ChartFrames ==
    {a \o b \o c : a \in ChartRowsUpTo(C1), b \in ChartRowsUpTo(C2),
                   c \in ChartRowsUpTo(<<"C", "3">>)} \ {<<>>}

DrawChart ==
    /\ \E viz_df \in ChartFrames :
          call' = [fn |-> "chart", arg |-> viz_df, raised |-> FALSE]
    /\ UNCHANGED <<pc, k, caller, db, all_tabs, cache, refresh, synced, page, reader, conns>>

NextChart == DrawChart

SpecChart == InitCoerce /\ [][NextChart]_vars

\* ------------------------------------------------------------ properties

\* The rows of the source's sheets that this sync has read.
SourceClients == all_tabs.rows[ClientsSheet]

SourceResponses(tool) == all_tabs.rows[ToolSheet[tool]]

\* A cell that is there and holds more than nothing: the column exists,
\* the cell is neither None nor the empty string.
Present(row, col) == col \in DOMAIN row /\ row[col] # None /\ row[col] # EmptyStr

OrphanRows(store, tool) ==
    {i \in 1..Len(store.resp[tool]) :
        store.resp[tool][i].client_code \notin DOMAIN store.clients}

\* C1: after a completed sync every row of each of the six response
\* tables carries the ID of a row of the clients table.
C1_NoOrphansAfterSync ==
    pc = "done" => \A t \in ToolSet : OrphanRows(db, t) = {}

\* A sync has completed whose source had an assessment row for a client
\* code that no accepted Clients row has, next to one that was inserted.
C1_Witness ==
    /\ pc = "done"
    /\ \E t \in ToolSet : Len(db.resp[t]) > 0
    /\ \E t \in ToolSet : \E i \in 1..Len(SourceResponses(t)) :
          /\ Present(SourceResponses(t)[i], ColClientCode)
          /\ safe_str(SourceResponses(t)[i][ColClientCode]) \notin DOMAIN db.clients

\* What the source alone determines the store to be: the last accepted
\* row of each client identifier, the assessment rows of those clients in
\* sheet order, and one registry entry per tab.
AcceptedAt(rows) == {i \in 1..Len(rows) : ClientRowAccepted(rows[i])}

ClientKey(row) == safe_str(RowGet(row, ColID, EmptyStr))

ClientsOfSource(rows) ==
    [id \in {ClientKey(rows[i]) : i \in AcceptedAt(rows)} |->
        LET last == CHOOSE i \in AcceptedAt(rows) :
                        /\ ClientKey(rows[i]) = id
                        /\ \A j \in AcceptedAt(rows) : ClientKey(rows[j]) = id => j <= i
        IN  [counsellor_assn |-> safe_str(RowGet(rows[last], ColCounsellor, EmptyStr))]]

RECURSIVE ResponsesOfSource(_, _, _)
ResponsesOfSource(rows, tool, ids) ==
    IF rows = <<>> THEN <<>>
    ELSE LET r    == rows[Len(rows)]
             code == safe_str(RowGet(r, ColClientCode, EmptyStr))
             rest == ResponsesOfSource(SubSeq(rows, 1, Len(rows) - 1), tool, ids)
         IN  IF code \in ids
             THEN Append(rest,
                    [timestamp |-> parse_timestamp(RowGet(r, ColTimestamp, EmptyStr)),
                     client_code |-> code,
                     score |-> safe_int(RowGet(r, ScoreColumn[tool], EmptyStr))])
             ELSE rest

StoreOfSource(tabs) ==
    LET cl == ClientsOfSource(tabs.rows[ClientsSheet])
    IN  [tables_exist |-> TRUE,
         clients |-> cl,
         resp |-> [t \in ToolSet |->
                      ResponsesOfSource(tabs.rows[ToolSheet[t]], t, DOMAIN cl)],
         sheet_config |-> [n \in Range(tabs.names) |-> ConfigRow(n)]]

\* C2: a completed sync leaves the store that the source alone
\* determines, whatever the store held before: nothing of the earlier
\* contents is left, and sheet_config has one entry per tab of the source.
C2_StoreDeterminedBySource ==
    pc = "done" => /\ db = StoreOfSource(all_tabs)
                   /\ DOMAIN db.sheet_config = Range(all_tabs.names)

\* populate_mysql.py has completed a sync over a store that an earlier
\* sync of the app had filled (the app's cache holds that sync's value),
\* from a spreadsheet with fewer tabs.
C2_Witness ==
    /\ pc = "done"
    /\ caller = "script"
    /\ cache
    /\ Len(all_tabs.names) < Len(TabOrder)
    /\ DOMAIN db.sheet_config = Range(all_tabs.names)

\* C3 (as claimed): after a sync the clients table holds exactly the
\* identifiers of the Clients rows whose ID cell and therapist cell are
\* both present, a blank cell counting as not present.
C3_ClientsOnlyWherePresent ==
    pc = "done" =>
        DOMAIN db.clients =
            {ClientKey(SourceClients[i]) :
                i \in {j \in 1..Len(SourceClients) :
                          /\ Present(SourceClients[j], ColID)
                          /\ Present(SourceClients[j], ColCounsellor)}}

\* C4 (as claimed): no response table ever holds a row whose client
\* identifier is blank.
C4_NoBlankClientCode ==
    \A t \in ToolSet : \A i \in 1..Len(db.resp[t]) :
        db.resp[t][i].client_code # EmptyStr

\* The sum of a sequence of numbers.
RECURSIVE SumSeq(_)
SumSeq(q) == IF q = <<>> THEN 0 ELSE Head(q) + SumSeq(Tail(q))

\* The rows of a frame for one client code.
RowsOf(df, code) == {i \in 1..Len(df) : df[i].ClientCode = code}

\* Whether a frame numbers the rows of every client 1..N, each number
\* once, N the client's rows in the tool's table, and in the order of
\* their timestamps.
DenseRanks(store, tool, df) ==
    \A code \in {store.resp[tool][i].client_code : i \in 1..Len(store.resp[tool])} :
        LET n == Cardinality({i \in 1..Len(store.resp[tool]) :
                                 store.resp[tool][i].client_code = code})
        IN  /\ Cardinality(RowsOf(df, code)) = n
            /\ \A s \in 1..n :
                  Cardinality({i \in RowsOf(df, code) : df[i].SessionNumber = s}) = 1
            /\ \A i, j \in RowsOf(df, code) :
                  (/\ df[i].Timestamp # None
                   /\ df[j].Timestamp # None
                   /\ StrLess(df[i].Timestamp, df[j].Timestamp))
                      => df[i].SessionNumber < df[j].SessionNumber

\* C5: every frame that a query of get_tool_data gives the page for a tool
\* numbers the N rows that a client has in the tool's table 1..N, each
\* number once, a row with an earlier timestamp before one with a later
\* timestamp, whatever rows other clients have.
C5_SessionNumbersDense ==
    \A t \in ToolSet :
        (pc = "render" /\ page.view.tool_name = ToolSheet[t] /\ ~page.view.error)
            => DenseRanks(db, t, page.view.df)

\* The page shows a frame of three rows, numbered 1 and 2 for client C1
\* and 1 for client C2, of a table that holds the later row of C1 first,
\* the row of C2 second and the earlier row of C1 last.
C5_Witness ==
    /\ pc = "render"
    /\ Len(page.view.df) = 3
    /\ {<<page.view.df[i].ClientCode, page.view.df[i].SessionNumber>> : i \in 1..3}
          = {<<C1, 1>>, <<C1, 2>>, <<C2, 1>>}
    /\ \E t \in ToolSet :
          /\ ToolSheet[t] = page.view.tool_name
          /\ Len(db.resp[t]) = 3
          /\ db.resp[t][1].client_code = C1
          /\ db.resp[t][2].client_code = C2
          /\ db.resp[t][3].client_code = C1
          /\ db.resp[t][3].timestamp # None
          /\ db.resp[t][1].timestamp # None
          /\ StrLess(db.resp[t][3].timestamp, db.resp[t][1].timestamp)

\* The session number of each row of a frame, the order of the frame's
\* rows left aside.
Numbering(df) == Range(df)

\* C6 (as claimed): after a sync the session number of every response row
\* is fixed by the source: every query of a tool gives each row the same
\* number, also where rows of a client tie on their timestamp.
C6_RanksStable ==
    pc = "done" =>
        \A t \in ToolSet :
            Cardinality({Numbering(df) : df \in get_tool_data(db, ToolSheet[t])}) = 1

\* C7: after a sync, for each tool, the per-therapist distinct-client
\* counts add up to the number of distinct client codes in the tool's
\* table.
C7_ToolCountsAddUp ==
    pc = "done" =>
        \A t \in ToolSet :
            LET rows == get_therapist_comprehensive_counts(db)
            IN  SumSeq([i \in 1..Len(rows) |-> rows[i].tool_clients[t]])
                    = Cardinality({db.resp[t][i].client_code : i \in 1..Len(db.resp[t])})

\* A sync has completed with clients of two therapists and a response
\* row of one of them.
C7_Witness ==
    /\ pc = "done"
    /\ Len(get_therapist_comprehensive_counts(db)) = 2
    /\ \E t \in ToolSet : Len(db.resp[t]) > 0

\* C8 (as claimed): in every store state the count for "All" is the sum of
\* the counts of the therapists the selector offers.
C8_AllIsSumOverTherapists ==
    LET offered == get_therapist_client_counts(db)
    IN  get_therapist_client_count(db, All)
            = SumSeq([i \in 1..Len(offered) |->
                         get_therapist_client_count(db, offered[i][1])])

\* The source of the end-to-end scenario: one client C1 of therapist T1,
\* and two EPDS rows of C1 with increasing timestamps and the scores 20
\* and 10.
ScenarioSource ==
    /\ Len(all_tabs.names) = Len(TabOrder)
    /\ SourceClients = <<Row2(ColID, C1, ColCounsellor, T1)>>
    /\ SourceResponses("epds") =
          <<Row3(ColTimestamp, TS1, ColClientCode, C1, ScoreColumn.epds, <<"2", "0">>),
            Row3(ColTimestamp, TS2, ColClientCode, C1, ScoreColumn.epds, <<"1", "0">>)>>
    /\ \A t \in ToolSet \ {"epds"} : SourceResponses(t) = <<>>

\* C9: after a sync of the scenario's source, get_tool_data for the EPDS
\* tool returns the two rows with session number 1 for score 20 and 2 for
\* score 10, and the therapist counts are the one row T1: 1 client, 1 EPDS
\* client, 0 for the other tools.
C9_EndToEnd ==
    (pc = "done" /\ ScenarioSource) =>
        /\ \A df \in get_tool_data(db, ToolSheet.epds) :
              /\ Len(df) = 2
              /\ {<<df[i].Score, df[i].SessionNumber>> : i \in 1..2}
                    = {<<<<20>>, 1>>, <<<<10>>, 2>>}
        /\ get_therapist_comprehensive_counts(db) =
              <<[therapist_name |-> T1, total_clients |-> 1,
                 tool_clients |-> [t \in ToolSet |-> IF t = "epds" THEN 1 ELSE 0]]>>

C9_Witness == pc = "done" /\ ScenarioSource

\* C10 (as claimed): a page run that a click on the refresh button caused
\* has run the full sync by the time it queries the store.
C10_RefreshSyncs ==
    (pc \in {"available_tools", "counts", "render"} /\ refresh) => synced

\* C11 (as claimed): a populated check that returned False, for an empty
\* clients table or for a failed connection, makes the page run execute
\* the full sync: from the call of get_cached_data the run goes on to
\* load the spreadsheet.
C11_FalseCheckSyncs == [][pc = "get_cached_data" => pc' = "load"]_vars

\* The three sheet names that no listing of the available tools shows.
NeverTools == {"Assessment Tools", "Generated Links", "Clients"}

\* C12: after a sync a sheet is flagged excluded in sheet_config exactly
\* when its name is one of "Assessment Tools", "Generated Links" and
\* "Clients", and get_available_tools returns every registered sheet name
\* but these three.
C12_ExclusionList ==
    pc = "done" =>
        /\ \A n \in DOMAIN db.sheet_config :
              db.sheet_config[n].is_excluded = 1 <=> n \in NeverTools
        /\ Range(get_available_tools(db)) = DOMAIN db.sheet_config \ NeverTools

\* A sync of a spreadsheet with all tabs has completed: the three names
\* are registered, and seven names are available.
C12_Witness ==
    /\ pc = "done"
    /\ NeverTools \subseteq DOMAIN db.sheet_config
    /\ Len(get_available_tools(db)) = Len(TabOrder) - Cardinality(NeverTools)

\* The seven sheet names of the static sheet-to-table mapping.
MappedNames ==
    {"Clients",
     "Edinburgh Postnatal Depression Scale (EPDS) (Responses) - EPDS Scoring",
     "Beck's Depression Inventory (BDI) (Responses) - BDI Scoring",
     "Beck Anxiety Inventory (BAI) (Responses) - BAI Scoring",
     "ACE-Q Responses - ACE-Q Scoring",
     "SADS Responses - SADS Scoring",
     "ASRS Responses - ASRS Scoring"}

\* C13: after a sync every tab of the source that the mapping does not
\* name has a sheet_config entry with the empty table name, and the
\* clients table and the six response tables are those of the same source
\* without the rows of such a tab.
C13_UnmappedTabRegisteredOnly ==
    pc = "done" =>
        /\ \A n \in Range(all_tabs.names) \ MappedNames :
              /\ n \in DOMAIN db.sheet_config
              /\ db.sheet_config[n].table_name = ""
        /\ LET without == StoreOfSource([all_tabs EXCEPT !.rows[NotesSheet] = <<>>])
           IN  db.clients = without.clients /\ db.resp = without.resp

\* A sync has completed whose source has a row on the Notes tab with the
\* ID C1 and the client code C1, and the store has no client C1.
C13_Witness ==
    /\ pc = "done"
    /\ all_tabs.rows[NotesSheet] = <<NoteRow>>
    /\ NotesSheet \in DOMAIN db.sheet_config
    /\ C1 \notin DOMAIN db.clients
    /\ \E t \in ToolSet : Len(db.resp[t]) > 0

\* Whether a value is absent, blank, or a text that is no number: no
\* decimal literal and no special form.
NoNumber(value) ==
    \/ value = None
    \/ Strip(value) = <<>>
    \/ ~ParseFloat(value).ok

\* C14 (as claimed): safe_int and safe_float return for every value, and
\* return None exactly for a value that is absent, blank or no number.
C14_CoercersNeverRaise ==
    /\ call.fn = "safe_int" =>
          /\ ~call.raised
          /\ safe_int(call.arg) = <<>> <=> NoNumber(call.arg)
    /\ call.fn = "safe_float" =>
          /\ ~call.raised
          /\ safe_float(call.arg) = <<>> <=> NoNumber(call.arg)

\* The float 67.0.
SixtySeven == [special |-> "", neg |-> FALSE, whole |-> 67, frac |-> <<>>]

\* C15: parse_percentage returns for every value; for the text of a
\* number it gives the number, and the same number for the text followed
\* by a percent sign ("67%" and "67" give 67.0); for a text that ends in a
\* percent sign it gives what the text without the sign gives; for an
\* absent, blank or non-numeric value ("abc", "%") it gives None.
C15_PercentSignOptional ==
    call.fn = "parse_percentage" =>
        LET v == call.arg
            t == IF v = None THEN <<>> ELSE Strip(v)
        IN  /\ ~call.raised
            /\ v # None /\ ~NoNumber(v) =>
                  /\ parse_percentage(v) = safe_float(v)
                  /\ parse_percentage(v \o <<"%">>) = safe_float(v)
            /\ t # <<>> /\ t[Len(t)] = "%" =>
                  parse_percentage(v) = safe_float(SubSeq(t, 1, Len(t) - 1))
            /\ v \in {<<"6", "7">>, <<"6", "7", "%">>} =>
                  parse_percentage(v) = <<SixtySeven>>
            /\ (v = None \/ t = <<>> \/ v \in {<<"a", "b", "c">>, <<"%">>}) =>
                  parse_percentage(v) = <<>>

\* parse_percentage has been called with "67%".
C15_Witness == call.fn = "parse_percentage" /\ call.arg = <<"6", "7", "%">>

\* The canonical form YYYY-MM-DD HH:MM:SS: digits and separators in their
\* places, whether or not the date exists.
Canonical(s) ==
    /\ Len(s) = 19
    /\ \A i \in {1, 2, 3, 4, 6, 7, 9, 10, 12, 13, 15, 16, 18, 19} : IsDigit(s[i])
    /\ s[5] = "-" /\ s[8] = "-" /\ s[11] = " " /\ s[14] = ":" /\ s[17] = ":"

\* C16: parse_timestamp leaves a text in canonical form as it is, and
\* applied to its own result it gives that result, for every value,
\* absent and unparseable ones included.
C16_TimestampIdempotent ==
    call.fn = "parse_timestamp" =>
        /\ ~call.raised
        /\ (call.arg # None /\ Canonical(call.arg)) => parse_timestamp(call.arg) = call.arg
        /\ parse_timestamp(parse_timestamp(call.arg)) = parse_timestamp(call.arg)

\* parse_timestamp has been called with a text that it rewrites: a date
\* without a time of day.
C16_Witness ==
    /\ call.fn = "parse_timestamp"
    /\ call.arg = TS2
    /\ parse_timestamp(call.arg) # call.arg
    /\ Canonical(parse_timestamp(call.arg))

\* The count of a call of get_therapist_clients_for_tool.
CountOfCall ==
    get_therapist_clients_for_tool(db, call.arg.therapist_name, call.arg.tool_name,
                                   call.arg.query_ok)

SixKeywordNames == MappedNames \ {"Clients"}

\* C17: get_therapist_clients_for_tool returns 0, for every therapist
\* selection, for every tool name that is not "Clients" and contains none
\* of the six keywords, and for a tool with a table when its query fails.
C17_UnmappedToolCountsZero ==
    call.fn = "get_therapist_clients_for_tool" =>
        /\ ~call.raised
        /\ call.arg.tool_name \notin MappedNames => CountOfCall = 0
        /\ ~call.arg.query_ok => CountOfCall = 0

\* The function has been called for the Notes tab and every therapist on
\* a store in which a call for an assessment tool counts a client.
C17_Witness ==
    /\ call.fn = "get_therapist_clients_for_tool"
    /\ call.arg.tool_name = "Notes"
    /\ call.arg.therapist_name = All
    /\ call.arg.query_ok
    /\ \E name \in SixKeywordNames : get_therapist_clients_for_tool(db, All, name, TRUE) > 0
    /\ get_therapist_clients_for_tool(db, All, "Clients", TRUE) > 0

\* C18: a query of get_tool_data that fails gives the page an empty frame
\* for that tool and the loop goes on with the next available tool; the
\* loop ends only when it has passed every available tool.
C18_FailureDoesNotStopRendering ==
    [][/\ (pc = "render" /\ page'.view.error) =>
            /\ page'.view.df = <<>>
            /\ page'.view.tool_name = page.available_tools[k]
            /\ pc' = "render"
            /\ k' = k + 1
       /\ (pc = "render" /\ pc' # "render") => k > Len(page.available_tools)]_vars

\* The page shows a frame with rows for a tool after the query of an
\* earlier tool of the same run has failed.
C18_Witness ==
    /\ pc = "render"
    /\ page.failed
    /\ ~page.view.error
    /\ Len(page.view.df) > 0

RowRemoved ==
    \/ ~(DOMAIN db.clients \subseteq DOMAIN db'.clients)
    \/ ~(DOMAIN db.sheet_config \subseteq DOMAIN db'.sheet_config)
    \/ \E t \in ToolSet : Len(db'.resp[t]) < Len(db.resp[t])

NoResponses(store) == \A t \in ToolSet : store.resp[t] = <<>>

\* C20: within one run of populate_database_with_sheets every delete comes
\* before every insert, the sheet registry is complete before a client row
\* is read, and every client row is read and inserted before the first
\* response row is checked or inserted.
C20_SyncOrder ==
    [][/\ RowRemoved => pc = "delete"
       /\ pc = "delete" =>
             /\ all_tabs' = all_tabs
             /\ \A t \in ToolSet : Len(db'.resp[t]) <= Len(db.resp[t])
             /\ DOMAIN db'.clients \subseteq DOMAIN db.clients
             /\ DOMAIN db'.sheet_config \subseteq DOMAIN db.sheet_config
       /\ (pc # "delete" /\ db'.sheet_config # db.sheet_config) =>
             /\ pc = "config"
             /\ db.clients = EmptyFcn
             /\ NoResponses(db)
             /\ RowsRead = 0
       /\ (pc \notin {"idle", "done"}
            /\ all_tabs'.rows[ClientsSheet] # all_tabs.rows[ClientsSheet]) =>
             /\ pc = "clients"
             /\ DOMAIN db.sheet_config = Range(all_tabs.names)
             /\ NoResponses(db)
             /\ RespRowsRead = 0
       /\ (pc # "delete" /\ db'.clients # db.clients) => pc = "clients"
       /\ (pc \notin {"idle", "done"}
            /\ \E t \in ToolSet : all_tabs'.rows[ToolSheet[t]] # all_tabs.rows[ToolSheet[t]]) =>
             pc = "responses"
       /\ (pc # "delete" /\ db'.resp # db.resp) => pc = "responses"
       /\ pc = "responses" =>
             /\ db'.clients = db.clients
             /\ pc' \in {"responses", "done"}
             /\ pc' = "responses" =>
                   all_tabs'.rows[ClientsSheet] = all_tabs.rows[ClientsSheet]
      ]_vars

C20_Witness ==
    /\ pc = "responses"
    /\ Len(all_tabs.rows[ClientsSheet]) = 2
    /\ Cardinality(DOMAIN db.clients) = 2
    /\ \E t \in ToolSet : Len(db.resp[t]) = 1

\* C21: started on a store without orphans, the store has no orphan after
\* any single statement of a sync either: every row of a response table
\* carries the ID of a row of the clients table in every state.
C21_NoOrphansDuringSync ==
    \A t \in ToolSet : OrphanRows(db, t) = {}

\* The sync has emptied the first response table; a later one still has
\* rows, whose clients are still in the clients table.
C21_Witness ==
    /\ pc = "delete"
    /\ k = 2
    /\ db.clients # EmptyFcn
    /\ \E t \in ToolSet : Len(db.resp[t]) > 0

C23_ConnectionsReleased ==
    /\ conns <= 1
    /\ ~InSync => conns = 0

\* The greatest integer not above the float.
FloorOfFloat(f) ==
    IF f.neg /\ TrimZeros(f.frac) # <<>> THEN 0 - f.whole - 1 ELSE TruncToInt(f)

\* C24: for every value that parses as a finite number safe_int returns the
\* floor of the number, below zero as well as above.
C24_SafeIntFloors ==
    (call.fn = "safe_int" /\ ~call.raised /\ ~NoNumber(call.arg)
     /\ ParseFloat(call.arg).special = "") =>
        safe_int(call.arg) = <<FloorOfFloat(ParseFloat(call.arg))>>

\* C25: parse_timestamp returns for every value; for a text that is not
\* blank and does not parse as a date it returns the text as it was given,
\* blanks at its ends included; it returns None for an absent or blank
\* value only.
C25_UnparsedVerbatim ==
    call.fn = "parse_timestamp" =>
        /\ ~call.raised
        /\ (call.arg # None /\ Strip(call.arg) # <<>> /\ ~to_datetime(Strip(call.arg)).ok) =>
              parse_timestamp(call.arg) = call.arg
        /\ parse_timestamp(call.arg) = None <=>
              (call.arg = None \/ Strip(call.arg) = <<>>)

\* The identifier of an accepted Clients row, without the blanks at its
\* ends.
TrimmedID(row) == Strip(row[ColID])

\* C26: after a sync the clients table has one row for each identifier of
\* an accepted Clients row, identifiers compared without the blanks at
\* their ends, and none besides; the row of an identifier carries the
\* therapist of the last accepted Clients row with that identifier.
C26_OneRowPerClientLastWins ==
    pc = "done" =>
        LET rows == all_tabs.rows[ClientsSheet]
            acc  == AcceptedAt(rows)
        IN  /\ DOMAIN db.clients = {TrimmedID(rows[i]) : i \in acc}
            /\ \A i \in acc :
                  (\A j \in acc : j > i => TrimmedID(rows[j]) # TrimmedID(rows[i])) =>
                      db.clients[TrimmedID(rows[i])].counsellor_assn
                          = Strip(rows[i][ColCounsellor])

\* A sync has completed whose Clients sheet had two accepted rows of one
\* identifier, written with and without blanks, with different therapists.
C26_Witness ==
    /\ pc = "done"
    /\ LET rows == all_tabs.rows[ClientsSheet]
       IN  \E i, j \in AcceptedAt(rows) :
              /\ i < j
              /\ rows[i][ColID] # rows[j][ColID]
              /\ TrimmedID(rows[i]) = TrimmedID(rows[j])
              /\ Strip(rows[i][ColCounsellor]) # Strip(rows[j][ColCounsellor])
              /\ db.clients[TrimmedID(rows[j])].counsellor_assn = Strip(rows[j][ColCounsellor])

\* The statements of a page run after its populated check and its sync, if
\* it had one.
PageQueries == {"available_tools", "counts", "render"}

\* C27: a page run whose populated check returns true reads no sheet, runs
\* no sync and changes no table.  init_database at its start leaves a
\* populated store as it is; the check goes straight on to the queries with
\* an empty all_tabs; and from there to the end of the run every step
\* leaves the store and all_tabs alone and stays among the queries.
C27_PopulatedRunOnlyReads ==
    [][/\ (pc = "idle" /\ pc' = "check" /\ check_database_populated(db')) => db' = db
       /\ pc = "check" =>
             /\ db' = db
             /\ pc' \in {"available_tools", "get_cached_data"}
             /\ pc' = "available_tools" =>
                   (check_database_populated(db) /\ all_tabs' = NoTabs /\ synced' = synced)
       /\ pc \in PageQueries =>
             /\ db' = db
             /\ all_tabs' = all_tabs
             /\ synced' = synced \/ pc' = "idle"
             /\ pc' \in PageQueries \cup {"idle"}
      ]_vars

\* A page run that has not synced and had no cached value to skip the sync
\* with, so that its check returned true, shows a tool with rows.
C27_Witness ==
    /\ pc = "render"
    /\ ~synced
    /\ ~cache
    /\ all_tabs = NoTabs
    /\ Len(page.view.df) > 0

\* Whether the two counting routes agree for the therapist of one row of
\* get_therapist_comprehensive_counts.
RoutesAgree(store, row) ==
    /\ \A t \in ToolSet :
          get_therapist_clients_for_tool(store, row.therapist_name, ToolSheet[t], TRUE)
              = row.tool_clients[t]
    /\ get_therapist_clients_for_tool(store, row.therapist_name, ClientsSheet, TRUE)
          = row.total_clients
    /\ get_therapist_client_count(store, row.therapist_name) = row.total_clients

\* C28: for every therapist that get_therapist_comprehensive_counts lists,
\* get_therapist_clients_for_tool gives for each tool sheet the count of
\* the tool's column in the therapist's row, and for "Clients" the
\* therapist's total, which is also get_therapist_client_count.
C28_CountRoutesAgree ==
    pc = "done" =>
        LET rows == get_therapist_comprehensive_counts(db)
        IN  \A i \in 1..Len(rows) : RoutesAgree(db, rows[i])

\* The store that populate_database_with_sheets of db_build leaves for the
\* source that a sync of pull_build has read.
DbBuildStore ==
    LET filled == {t \in ToolSet : all_tabs.rows[ToolSheet[t]] # <<>>}
        tool   == IF filled = {} THEN "epds" ELSE CHOOSE t \in filled : TRUE
    IN  populate_database_with_sheets(all_tabs.names, all_tabs.rows[ClientsSheet],
                                      tool, all_tabs.rows[ToolSheet[tool]])

\* C29: for every source, the sync of pull_build ends with the rows in
\* clients, in each response table and in sheet_config that the sync of
\* db_build ends with, whatever the store held before.
C29_SyncsEquivalent ==
    pc = "pull_done" =>
        /\ db.clients = DbBuildStore.clients
        /\ db.resp = DbBuildStore.resp
        /\ db.sheet_config = DbBuildStore.sheet_config

\* The distinct clients and the distinct session numbers of a frame.
ClientsIn(df) == {df[i].ClientCode : i \in 1..Len(df)}

SessionsIn(df) == {df[i].SessionNumber : i \in 1..Len(df)}

\* C30 (as claimed): the chart has one line for each distinct client of the
\* filtered frame, and the average line exactly when the frame has more
\* than one distinct client, whatever its session numbers.
C30_AverageIffSeveralClients ==
    call.fn = "chart" =>
        /\ Chart(call.arg).clients = ClientsIn(call.arg)
        /\ Chart(call.arg).average <=> Cardinality(ClientsIn(call.arg)) > 1

\* C30, as the code has it: the chart has one line for each distinct
\* client of the filtered frame, and the average line exactly when the
\* frame has more than one distinct client and more than one distinct
\* session number.
C30_AverageIffSeveralClientsAndSessions ==
    call.fn = "chart" =>
        /\ Chart(call.arg).clients = ClientsIn(call.arg)
        /\ Chart(call.arg).average <=>
              (Cardinality(ClientsIn(call.arg)) > 1 /\ Cardinality(SessionsIn(call.arg)) > 1)

\* A chart is drawn for three clients that have one session each: three
\* lines and no average.
C30_Witness ==
    /\ call.fn = "chart"
    /\ Cardinality(ClientsIn(call.arg)) = 3
    /\ SessionsIn(call.arg) = {1}
    /\ Cardinality(Chart(call.arg).clients) = 3
    /\ ~Chart(call.arg).average

====
